---- MODULE Spec2Model ----
(***************************************************************************)
(* Model of main.py, the command-line driver of the Code Obfuscation       *)
(* Analyzer: parse the command line, validate the directory, run each      *)
(* selected external tool in turn with subprocess.run(check=True), log     *)
(* every outcome, exit 1 on any exception.                                 *)
(*                                                                         *)
(* A "spawn" is one call of subprocess.run: `spawned` lists the command    *)
(* lines handed to it, in order.  A call whose executable cannot be        *)
(* launched creates no child process and raises OSError; any other call    *)
(* creates one child process, which is in `running` until it terminates    *)
(* and in `terminated` until the blocked parent examines its status.       *)
(***************************************************************************)
EXTENDS Integers, Sequences, FiniteSets

VARIABLES argv, pc, awaited, running, terminated, fate, spawned, completed,
          log, exception, stdout, exitStatus

vars == <<argv, pc, awaited, running, terminated, fate, spawned, completed,
          log, exception, stdout, exitStatus>>

----------------------------------------------------------------------------
(* Bounds and inputs *)

\* Child processes exit with a return code in 0..MaxReturnCode.
MaxReturnCode == 2

VERSION == "1.0.0"

\* The file system the run sees: two directories, a regular file, and a path
\* that does not exist.
Directories == {"proj", "lib"}
Paths == Directories \cup {"notes.txt", "nowhere"}

\* Path(directory).is_dir()
IsDirExists(d) == d # "nowhere"
IsDir(d) == d \in Directories

\* The flags of the four tools, in the order analyze_code tests them.
ToolOrderSwapped == <<"bandit", "pylint", "flake8", "pyre">>
ToolOrder == <<"bandit", "flake8", "pylint", "pyre">>
Tools == {"bandit", "flake8", "pylint", "pyre"}

\* A command line: the tool flags given, whether --version is given, and the
\* positional arguments (none or one directory).
CommandLines ==
  [flags : SUBSET Tools,
   version : BOOLEAN,
   positional : {<<>>} \cup {<<d>> : d \in Paths}]

\* What the operating system makes of a spawned command: the executable
\* cannot be launched, or the child runs and exits with a return code, or the
\* child runs and never exits.
Fates ==
  {[kind |-> "exit", returncode |-> c] : c \in 0..MaxReturnCode}
    \cup {[kind |-> "enoent", returncode |-> 0],
          [kind |-> "hang", returncode |-> 0]}
Unspawned == [kind |-> "unspawned", returncode |-> 0]

\* The text a child of tool t writes to its standard output and standard error.
CapturedStdout(t) == <<"stdout of", t>>
CapturedStderr(t) == <<"stderr of", t>>

NoException == [type |-> "none", msg |-> <<>>]

----------------------------------------------------------------------------
(* setup_argparse and parse_args *)

\* argparse: the version action ends the run when the flag is parsed; the
\* required positional is checked only after every argument is consumed.
ParseOutcomeRequiredFirst(a) ==
  IF a.positional = <<>> THEN "usage"
  ELSE IF a.version THEN "version" ELSE "ok"
ParseOutcome(a) ==
  IF a.version THEN "version"
  ELSE IF a.positional = <<>> THEN "usage" ELSE "ok"

\* args.bandit, args.flake8, args.pylint, args.pyre
SelectedPyreAlways(t) == t \in argv.flags \/ t = "pyre"
Selected(t) == t \in argv.flags

directory == argv.positional[1]

----------------------------------------------------------------------------
(* analyze_code: the command templates and the order of the tools *)

CommandPyreOnDirectory(t, d) ==
  IF t = "bandit" THEN <<"bandit", "-r", d>> ELSE <<t, d>>
Command(t, d) ==
  IF t = "bandit" THEN <<"bandit", "-r", d>>
  ELSE IF t = "pyre" THEN <<"pyre", "check">>
  ELSE <<t, d>>

IndexOf(t) == CHOOSE i \in 1..Len(ToolOrder) : ToolOrder[i] = t

\* Where analyze_code continues after the `if` of tool t.
NextStage(t) ==
  IF IndexOf(t) < Len(ToolOrder) THEN ToolOrder[IndexOf(t) + 1] ELSE "return"

----------------------------------------------------------------------------
(* run_tool *)

\* subprocess.run blocks until the child it started has exited.
AfterSpawnNoWait(t) == NextStage(t)
AfterSpawn(t) == "wait"

\* subprocess.run is called without a timeout: only a child that exits by
\* itself ever terminates.
CanTerminateTimeout(f) == f.kind \in {"exit", "hang"}
CanTerminate(f) == f.kind = "exit"

\* check=True: CalledProcessError on a non-zero return code.
CalledProcessErrorOnlyOne(rc) == rc = 1
CalledProcessError(rc) == rc # 0

LogRunning(cmd) ==
  [level |-> "INFO", msg |-> "Running command", text |-> cmd]
LogOutput(t) ==
  [level |-> "INFO", msg |-> "Command output", text |-> CapturedStdout(t)]
LogFailedStdout(t) ==
  [level |-> "ERROR", msg |-> "Command failed with error",
   text |-> CapturedStdout(t)]
LogFailed(t) ==
  [level |-> "ERROR", msg |-> "Command failed with error",
   text |-> CapturedStderr(t)]

RuntimeError(cmd) ==
  [type |-> "RuntimeError", msg |-> <<"Error running command:">> \o cmd]
OSError(cmd) ==
  [type |-> "OSError", msg |-> <<"No such file or directory:", cmd[1]>>]
FileNotFoundError(d) ==
  [type |-> "FileNotFoundError", msg |-> <<"Directory not found:", d>>]

\* Where control goes when run_tool's except clause has logged the failure.
OnCalledProcessErrorSwallowed(t) == NextStage(t)
OnCalledProcessError(t) == "except"

----------------------------------------------------------------------------
(* The state machine *)

TypeOK ==
  /\ argv \in CommandLines
  /\ pc \in {"parse_args", "is_dir", "wait", "return", "except", "exited"}
            \cup Tools
  /\ awaited \in Tools \cup {"none"}
  /\ running \subseteq Tools
  /\ terminated \subseteq Tools
  /\ fate \in [Tools -> Fates \cup {Unspawned}]
  /\ spawned \in Seq({Command(t, d) : t \in Tools, d \in Paths})
  /\ exitStatus \in {-1, 0, 1, 2}

Init ==
  /\ argv \in CommandLines
  /\ pc = "parse_args"
  /\ awaited = "none"
  /\ running = {}
  /\ terminated = {}
  /\ fate = [t \in Tools |-> Unspawned]
  /\ spawned = <<>>
  /\ completed = <<>>
  /\ log = <<>>
  /\ exception = NoException
  /\ stdout = <<>>
  /\ exitStatus = -1

\* main, lines 114-115: parser.parse_args().
ParseArgs ==
  /\ pc = "parse_args"
  /\ IF ParseOutcome(argv) = "version"
       THEN /\ stdout' = <<"main.py", VERSION>>
            /\ exitStatus' = 0
            /\ pc' = "exited"
       ELSE IF ParseOutcome(argv) = "usage"
         THEN /\ exitStatus' = 2
              /\ pc' = "exited"
              /\ UNCHANGED stdout
         ELSE /\ pc' = "is_dir"
              /\ UNCHANGED <<stdout, exitStatus>>
  /\ UNCHANGED <<argv, awaited, running, terminated, fate, spawned,
                 completed, log, exception>>

\* analyze_code, lines 92-95.
ValidateDirectory ==
  /\ pc = "is_dir"
  /\ IF IsDir(directory)
       THEN /\ pc' = ToolOrder[1]
            /\ UNCHANGED <<log, exception>>
       ELSE /\ log' = Append(log, [level |-> "ERROR",
                                   msg |-> "Directory does not exist",
                                   text |-> <<directory>>])
            /\ exception' = FileNotFoundError(directory)
            /\ pc' = "except"
  /\ UNCHANGED <<argv, awaited, running, terminated, fate, spawned,
                 completed, stdout, exitStatus>>

\* analyze_code, lines 98-105: `if use_t:` is false.
SkipTool(t) ==
  /\ pc = t
  /\ ~Selected(t)
  /\ pc' = NextStage(t)
  /\ UNCHANGED <<argv, awaited, running, terminated, fate, spawned,
                 completed, log, exception, stdout, exitStatus>>

\* run_tool, lines 71-74: log the command and call subprocess.run, which
\* either fails to launch the executable or starts a child and blocks.
Spawn(t) ==
  /\ pc = t
  /\ Selected(t)
  /\ \E f \in Fates :
       /\ fate' = [fate EXCEPT ![t] = f]
       /\ log' = Append(log, LogRunning(Command(t, directory)))
       /\ spawned' = Append(spawned, Command(t, directory))
       /\ IF f.kind = "enoent"
            THEN /\ exception' = OSError(Command(t, directory))
                 /\ pc' = "except"
                 /\ UNCHANGED <<awaited, running>>
            ELSE /\ running' = running \cup {t}
                 /\ awaited' = t
                 /\ pc' = AfterSpawn(t)
                 /\ UNCHANGED exception
  /\ UNCHANGED <<argv, terminated, completed, stdout, exitStatus>>

\* The child process of tool t exits.
ChildTerminates(t) ==
  /\ t \in running
  /\ CanTerminate(fate[t])
  /\ running' = running \ {t}
  /\ terminated' = terminated \cup {t}
  /\ UNCHANGED <<argv, pc, awaited, fate, spawned, completed, log,
                 exception, stdout, exitStatus>>

\* run_tool, lines 72-78: subprocess.run returns or raises once the child
\* has exited; its return code is examined and the outcome is logged.
AwaitChild ==
  /\ pc = "wait"
  /\ awaited \in terminated
  /\ terminated' = terminated \ {awaited}
  /\ completed' = Append(completed,
                         [tool |-> awaited,
                          command |-> Command(awaited, directory),
                          returncode |-> fate[awaited].returncode])
  /\ IF CalledProcessError(fate[awaited].returncode)
       THEN /\ log' = Append(log, LogFailed(awaited))
            /\ exception' = RuntimeError(Command(awaited, directory))
            /\ pc' = OnCalledProcessError(awaited)
       ELSE /\ log' = Append(log, LogOutput(awaited))
            /\ pc' = NextStage(awaited)
            /\ UNCHANGED exception
  /\ awaited' = "none"
  /\ UNCHANGED <<argv, running, fate, spawned, stdout, exitStatus>>

\* main: analyze_code returned; the interpreter exits with status 0.
Return ==
  /\ pc = "return"
  /\ exitStatus' = 0
  /\ pc' = "exited"
  /\ UNCHANGED <<argv, awaited, running, terminated, fate, spawned,
                 completed, log, exception, stdout>>

\* main, lines 125-127: except Exception.
HandleException ==
  /\ pc = "except"
  /\ log' = Append(log, [level |-> "ERROR", msg |-> "An error occurred",
                         text |-> exception.msg])
  /\ exitStatus' = 1
  /\ pc' = "exited"
  /\ UNCHANGED <<argv, awaited, running, terminated, fate, spawned,
                 completed, exception, stdout>>

Next ==
  \/ ParseArgs
  \/ ValidateDirectory
  \/ \E t \in Tools : SkipTool(t)
  \/ \E t \in Tools : Spawn(t)
  \/ \E t \in Tools : ChildTerminates(t)
  \/ AwaitChild
  \/ Return
  \/ HandleException

Spec == Init /\ [][Next]_vars

\* The interpreter keeps executing, and a child that is going to exit does.
FairSpec == Spec /\ WF_vars(Next)

----------------------------------------------------------------------------
(* Vocabulary of the properties, written out independently of the model's   *)
(* own helpers.                                                             *)

Ended == pc = "exited"
Rank(t) == CASE t = "bandit" -> 1 [] t = "flake8" -> 2
             [] t = "pylint" -> 3 [] t = "pyre" -> 4
Template(t, d) == CASE t = "bandit" -> <<"bandit", "-r", d>>
                    [] t = "flake8" -> <<"flake8", d>>
                    [] t = "pylint" -> <<"pylint", d>>
                    [] t = "pyre" -> <<"pyre", "check">>
ExistingDirectories == {"proj", "lib"}
\* The command line is accepted, --version is absent, the directory exists.
ValidRun ==
  /\ ~argv.version
  /\ argv.positional # <<>>
  /\ argv.positional[1] \in ExistingDirectories
\* The command line names a path that is no directory, without --version.
InvalidDirectoryRun ==
  /\ ~argv.version
  /\ argv.positional # <<>>
  /\ argv.positional[1] \notin ExistingDirectories
\* Child processes created so far.
NumChildren == Cardinality(running) + Cardinality(terminated) + Len(completed)
SomeChildFailed == \E i \in 1..Len(completed) : completed[i].returncode # 0
ExitedZero(t) == fate[t] = [kind |-> "exit", returncode |-> 0]

----------------------------------------------------------------------------
\* C1: once a spawned tool has exited non-zero, it is the last command ever
\* spawned (no selected tool later in the order bandit, flake8, pylint, pyre
\* is spawned), the run is aborting or has ended, it ends with status 1, and
\* it does end.
C1_FailFastState ==
  \A i \in 1..Len(completed) :
    completed[i].returncode # 0 =>
      /\ i = Len(completed)
      /\ Len(spawned) = i
      /\ spawned[i] = completed[i].command
      /\ \A j \in 1..Len(spawned) :
           Rank(spawned[j][1]) <= Rank(completed[i].tool)
      /\ pc \in {"except", "exited"}
      /\ (Ended => exitStatus = 1)
C1_FailFast ==
  /\ []C1_FailFastState
  /\ [][SomeChildFailed => spawned' = spawned]_vars
  /\ (SomeChildFailed ~> (Ended /\ exitStatus = 1))
C1_Witness ==
  /\ Ended
  /\ exitStatus = 1
  /\ {"bandit", "flake8"} \subseteq argv.flags
  /\ Len(completed) = 1
  /\ completed[1].tool = "bandit"
  /\ completed[1].returncode # 0
  /\ spawned = <<Template("bandit", argv.positional[1])>>

\* C2: for a path that does not exist or is not a directory, under each of
\* the 16 combinations of tool flags, nothing is ever spawned and the run
\* ends with status 1.
C2_InvalidDirectoryState ==
  InvalidDirectoryRun =>
    /\ spawned = <<>>
    /\ NumChildren = 0
    /\ (Ended => exitStatus = 1)
C2_InvalidDirectory ==
  /\ []C2_InvalidDirectoryState
  /\ (InvalidDirectoryRun ~> (Ended /\ exitStatus = 1 /\ spawned = <<>>))
C2_Witness ==
  /\ Ended
  /\ exitStatus = 1
  /\ ~argv.version
  /\ argv.positional = <<"notes.txt">>
  /\ argv.flags = {"pyre"}
  /\ spawned = <<>>

\* C3: with all four flags on a valid directory, the commands spawned are
\* always a prefix of bandit, flake8, pylint, pyre; unless some spawned tool
\* does something other than exit zero, the run ends with status 0 after
\* exactly those four spawns, and it ends no other way.
C3_Expected ==
  <<Template("bandit", argv.positional[1]),
    Template("flake8", argv.positional[1]),
    Template("pylint", argv.positional[1]),
    Template("pyre", argv.positional[1])>>
C3_AllFour == ValidRun /\ argv.flags = {"bandit", "flake8", "pylint", "pyre"}
C3_SomeToolDeviates ==
  \E t \in {"bandit", "flake8", "pylint", "pyre"} :
    fate[t].kind # "unspawned" /\ ~ExitedZero(t)
C3_AllFourState ==
  C3_AllFour =>
    /\ Len(spawned) <= 4
    /\ spawned = SubSeq(C3_Expected, 1, Len(spawned))
    /\ (Ended /\ ~C3_SomeToolDeviates =>
          /\ exitStatus = 0
          /\ spawned = C3_Expected
          /\ Len(completed) = 4
          /\ NumChildren = 4)
C3_AllFourSucceed ==
  /\ []C3_AllFourState
  /\ (C3_AllFour ~>
        (C3_SomeToolDeviates
           \/ (C3_AllFour /\ Ended /\ exitStatus = 0
                 /\ spawned = C3_Expected)))
C3_Witness ==
  /\ C3_AllFour
  /\ Ended
  /\ exitStatus = 0
  /\ \A t \in {"bandit", "flake8", "pylint", "pyre"} : ExitedZero(t)
  /\ spawned = C3_Expected

\* C4: with exactly one flag set on an existing directory d, the only command
\* ever spawned is that flag's template, it is spawned once, it creates one
\* child process when the executable can be launched, and it is spawned
\* eventually.
C4_OneFlagState ==
  \A t \in {"bandit", "flake8", "pylint", "pyre"} :
    (ValidRun /\ argv.flags = {t}) =>
      /\ spawned \in {<<>>, <<Template(t, argv.positional[1])>>}
      /\ NumChildren <= 1
      /\ (pc \in {"wait", "except", "return", "exited"} =>
            /\ spawned = <<Template(t, argv.positional[1])>>
            /\ (fate[t].kind # "enoent" => NumChildren = 1))
C4_OneFlag ==
  /\ []C4_OneFlagState
  /\ \A t \in {"bandit", "flake8", "pylint", "pyre"} :
       (ValidRun /\ argv.flags = {t}) ~> (Len(spawned) = 1)
C4_Witness ==
  /\ ValidRun
  /\ argv.flags = {"pyre"}
  /\ argv.positional = <<"lib">>
  /\ Ended
  /\ spawned = <<<<"pyre", "check">>>>
  /\ NumChildren = 1

\* C5: a run that has ended has status 0 when --version was given, status 1
\* exactly when the directory is missing, a spawned tool exited non-zero or a
\* tool's executable could not be launched, and status 0 only when none of
\* these occurred.
C5_Failure ==
  \/ InvalidDirectoryRun
  \/ \E t \in {"bandit", "flake8", "pylint", "pyre"} :
       \/ fate[t].kind = "exit" /\ fate[t].returncode # 0
       \/ fate[t].kind = "enoent"
C5_ExitStatus ==
  Ended =>
    /\ (argv.version => exitStatus = 0)
    /\ (exitStatus = 1 <=> C5_Failure)
    /\ (exitStatus = 0 => ~C5_Failure)
    /\ (ValidRun /\ ~C5_Failure => exitStatus = 0)
C5_Witness ==
  /\ Ended
  /\ exitStatus = 1
  /\ fate["flake8"].kind = "enoent"
  /\ exception.type = "OSError"
  /\ Len(completed) = 1

\* C6: when --version is given, whatever tool flags and directory argument
\* accompany it, no directory is validated, nothing is logged or spawned,
\* and the run ends with status 0 having printed the version.
C6_VersionState ==
  argv.version =>
    /\ spawned = <<>>
    /\ NumChildren = 0
    /\ log = <<>>
    /\ exception.type = "none"
    /\ pc \in {"parse_args", "exited"}
    /\ (Ended => exitStatus = 0 /\ stdout = <<"main.py", "1.0.0">>)
C6_Version ==
  /\ []C6_VersionState
  /\ (argv.version ~> (Ended /\ exitStatus = 0))
C6_Witness ==
  /\ argv.version
  /\ argv.positional = <<>>
  /\ argv.flags = {"bandit", "pyre"}
  /\ Ended
  /\ exitStatus = 0

\* C7: on an existing directory with no tool flag, nothing is ever spawned
\* and the run ends with status 0.
C7_NoFlagsState ==
  (ValidRun /\ argv.flags = {}) =>
    /\ spawned = <<>>
    /\ NumChildren = 0
    /\ (Ended => exitStatus = 0)
C7_NoFlags ==
  /\ []C7_NoFlagsState
  /\ ((ValidRun /\ argv.flags = {}) ~> (Ended /\ exitStatus = 0))
C7_Witness ==
  /\ ValidRun
  /\ argv.flags = {}
  /\ Ended
  /\ exitStatus = 0
  /\ spawned = <<>>

\* C8: the outcome records of the log correspond one to one, in order, to the
\* children whose exit status was examined: captured stdout at INFO after a
\* zero exit; captured stderr at ERROR after a non-zero exit, with a
\* RuntimeError carrying the command line raised and nothing after it; the
\* stdout of a failed child is never logged; no command is spawned twice.
C8_IsOutcome(r) == r.msg \in {"Command output", "Command failed with error"}
C8_Outcomes == SelectSeq(log, C8_IsOutcome)
C8_Outcome ==
  /\ Len(C8_Outcomes) = Len(completed)
  /\ \A i \in 1..Len(completed) :
       IF completed[i].returncode = 0
         THEN /\ C8_Outcomes[i] =
                   [level |-> "INFO", msg |-> "Command output",
                    text |-> <<"stdout of", completed[i].tool>>]
              /\ (i = Len(completed) => exception.type # "RuntimeError")
         ELSE /\ C8_Outcomes[i] =
                   [level |-> "ERROR", msg |-> "Command failed with error",
                    text |-> <<"stderr of", completed[i].tool>>]
              /\ exception =
                   [type |-> "RuntimeError",
                    msg |-> <<"Error running command:">>
                              \o completed[i].command]
              /\ i = Len(completed)
              /\ \A k \in 1..Len(log) :
                   log[k].text # <<"stdout of", completed[i].tool>>
  /\ \A i, j \in 1..Len(spawned) : i # j => spawned[i] # spawned[j]
C8_Witness ==
  /\ Len(completed) = 2
  /\ completed[1].returncode = 0
  /\ completed[2].returncode = 2
  /\ Ended

\* C9: at most one child process exists at a time, and a command is spawned
\* only when every child created before has exited and been examined.
C9_OneChild == Cardinality(running \cup terminated) <= 1
C9_Sequential ==
  /\ []C9_OneChild
  /\ [][spawned' # spawned =>
          /\ running = {}
          /\ terminated = {}
          /\ NumChildren = Len(completed)]_vars
C9_Witness ==
  /\ running = {"flake8"}
  /\ Len(completed) = 1
  /\ completed[1].tool = "bandit"

\* C10 as stated, as the result of a run: a run that has ended has status 0
\* or 1 and made at most four spawns, and no run has ended while a child that
\* never exits is running.
C10_ChildrenExit ==
  \A t \in {"bandit", "flake8", "pylint", "pyre"} :
    (t \in running) ~> (t \notin running)
C10_Hung == \E t \in running : fate[t].kind = "hang"
C10_HungBlocks ==
  [][C10_Hung => (C10_Hung' /\ spawned' = spawned /\ pc' = pc
                   /\ exitStatus' = exitStatus)]_vars
C10_UsageError == ~argv.version /\ argv.positional = <<>>
====
